---- MODULE Spec2Model ----
(***************************************************************************)
(* A model of fizzbuzz.py: the rule engine (fizzbuzz), the range runner    *)
(* (run), the rule parser (parse_rule), the aggregators (stats,            *)
(* histogram), the presenter (format_chart) and the CLI shell (main).      *)
(*                                                                         *)
(* Python strings are sequences of one-character strings, so that str(),   *)
(* int(), str.split, str.isdigit and "".join are computed character by     *)
(* character.  A Python dict is the sequence of its <<key, value>> items   *)
(* in insertion order.                                                     *)
(***************************************************************************)
EXTENDS Integers, Sequences, FiniteSets, TLC

VARIABLES pc, call, ret, args, calls, stdout, stderr, exitcode

vars == <<pc, call, ret, args, calls, stdout, stderr, exitcode>>

----------------------------------------------------------------------------
(* Bounds of the model *)

\* integers handed to the functions range over -MaxNeg .. MaxPos
MaxNeg == 3
MaxPos == 16
\* longest ruleset handed to the library functions
MaxRules == 2
\* longest text handed to parse_rule
MaxTextLen == 4
\* most --rule options on a command line
MaxCliRules == 2

Ints == (0 - MaxNeg) .. MaxPos

----------------------------------------------------------------------------
(* Python strings *)

DigitChars == <<"0", "1", "2", "3", "4", "5", "6", "7", "8", "9">>

DigitSet == {DigitChars[i] : i \in 1..10}

DigitValue(c) == (CHOOSE i \in 1..10 : DigitChars[i] = c) - 1

RECURSIVE StrNat(_)
StrNat(k) == IF k < 10 THEN <<DigitChars[k + 1]>>
             ELSE StrNat(k \div 10) \o <<DigitChars[(k % 10) + 1]>>

\* str(n) of an int
Str(n) == IF n < 0 THEN <<"-">> \o StrNat(0 - n) ELSE StrNat(n)

\* s.isdigit(): non-empty and every character a digit
IsDigit(s) == Len(s) > 0 /\ \A i \in 1..Len(s) : s[i] \in DigitSet

Fizz == <<"F", "i", "z", "z">>
Buzz == <<"B", "u", "z", "z">>
NumberKey == <<"(", "n", "u", "m", "b", "e", "r", ")">>

----------------------------------------------------------------------------
(* The optional rules argument: None, or a list of <<divisor, label>> *)

None == [isNone |-> TRUE, list |-> <<>>]
Some(l) == [isNone |-> FALSE, list |-> l]

DefaultRules == <<<<3, Fizz>>, <<5, Buzz>>>>

\* how a call ends: a returned value, held in a field of its type (str, list
\* of str, rule, dict of counts, dict of statistics), or a raised exception
ReturnedStr(v) == [ok |-> TRUE, str |-> v]
ReturnedList(v) == [ok |-> TRUE, list |-> v]
ReturnedRule(v) == [ok |-> TRUE, rule |-> v]
ReturnedCounts(v) == [ok |-> TRUE, counts |-> v]
ReturnedStats(v) == [ok |-> TRUE, stats |-> v]
Raised(e) == [ok |-> FALSE, err |-> e]

----------------------------------------------------------------------------
(* fizzbuzz *)

\* "".join(label for divisor, label in rules if n % divisor == 0)
RECURSIVE JoinMatching(_, _)
JoinMatching(n, rs) ==
    IF rs = <<>> THEN <<>>
    ELSE (IF n % rs[1][1] = 0 THEN rs[1][2] ELSE <<>>) \o JoinMatching(n, Tail(rs))

\* a slip: the labels are joined last rule first
RECURSIVE JoinMatchingRev(_, _)
JoinMatchingRev(n, rs) ==
    IF rs = <<>> THEN <<>>
    ELSE JoinMatchingRev(n, Tail(rs)) \o (IF n % rs[1][1] = 0 THEN rs[1][2] ELSE <<>>)

fizzbuzz_rev(n, rules) ==
    LET rs == IF rules.isNone THEN DefaultRules ELSE rules.list
        result == JoinMatchingRev(n, rs)
    IN  IF result # <<>> THEN result ELSE Str(n)

fizzbuzz(n, rules) ==
    LET rs == IF rules.isNone THEN DefaultRules ELSE rules.list
        result == JoinMatching(n, rs)
    IN  IF result # <<>> THEN result ELSE Str(n)

----------------------------------------------------------------------------
(* run *)

\* list(range(a, b))
RECURSIVE PyRange(_, _)
PyRange(a, b) == IF a >= b THEN <<>> ELSE <<a>> \o PyRange(a + 1, b)

\* a slip: range(start, end), the end excluded
run_exclusive(start, end, rules) ==
    LET r == PyRange(start, end)
    IN  [k \in 1..Len(r) |-> fizzbuzz(r[k], rules)]

run(start, end, rules) ==
    LET r == PyRange(start, end + 1)
    IN  [k \in 1..Len(r) |-> fizzbuzz(r[k], rules)]

----------------------------------------------------------------------------
(* parse_rule *)

\* s.split(":", 1): at most one split, at the first colon
Split1(s) ==
    IF \E i \in 1..Len(s) : s[i] = ":"
    THEN LET i == CHOOSE j \in 1..Len(s) :
                     s[j] = ":" /\ \A k \in 1..(j - 1) : s[k] # ":"
         IN  <<SubSeq(s, 1, i - 1), SubSeq(s, i + 1, Len(s))>>
    ELSE <<s>>

\* s.strip() as int() applies it: leading and trailing blanks removed
RECURSIVE LStrip(_)
LStrip(s) == IF s # <<>> /\ s[1] = " " THEN LStrip(Tail(s)) ELSE s

RECURSIVE RStrip(_)
RStrip(s) == IF s # <<>> /\ s[Len(s)] = " " THEN RStrip(SubSeq(s, 1, Len(s) - 1)) ELSE s

Strip(s) == RStrip(LStrip(s))

\* the digits of an int() literal after its sign: digits, single underscores
\* allowed between two digits
IsDigitGroup(b) ==
    /\ b # <<>>
    /\ \A i \in 1..Len(b) : b[i] \in DigitSet \cup {"_"}
    /\ b[1] # "_"
    /\ b[Len(b)] # "_"
    /\ \A i \in 1..(Len(b) - 1) : ~(b[i] = "_" /\ b[i + 1] = "_")

Unsigned(t) == IF t # <<>> /\ t[1] \in {"+", "-"} THEN Tail(t) ELSE t

\* int(s) succeeds (no ValueError)
IntOk(s) == IsDigitGroup(Unsigned(Strip(s)))

RECURSIVE DigitsValue(_, _)
DigitsValue(b, acc) ==
    IF b = <<>> THEN acc
    ELSE IF b[1] = "_" THEN DigitsValue(Tail(b), acc)
    ELSE DigitsValue(Tail(b), 10 * acc + DigitValue(b[1]))

\* int(s), where IntOk(s)
IntOf(s) ==
    LET t == Strip(s)
        v == DigitsValue(Unsigned(t), 0)
    IN  IF t[1] = "-" THEN 0 - v ELSE v

\* a slip: only negative divisors are refused
parse_rule_zero(s) ==
    LET parts == Split1(s)
    IN  IF Len(parts) # 2 THEN Raised("ArgumentTypeError")
        ELSE IF ~IntOk(parts[1]) THEN Raised("ArgumentTypeError")
        ELSE IF IntOf(parts[1]) < 0 THEN Raised("ArgumentTypeError")
        ELSE ReturnedRule(<<IntOf(parts[1]), parts[2]>>)

parse_rule(s) ==
    LET parts == Split1(s)
    IN  IF Len(parts) # 2 THEN Raised("ArgumentTypeError")
        ELSE IF ~IntOk(parts[1]) THEN Raised("ArgumentTypeError")
        ELSE IF IntOf(parts[1]) <= 0 THEN Raised("ArgumentTypeError")
        ELSE ReturnedRule(<<IntOf(parts[1]), parts[2]>>)

----------------------------------------------------------------------------
(* histogram *)

\* counts[key] = counts.get(key, 0) + 1 on a dict held as its items in
\* insertion order: a known key keeps its place, a new key goes last
DictIncr(counts, key) ==
    IF \E i \in 1..Len(counts) : counts[i][1] = key
    THEN [i \in 1..Len(counts) |->
             IF counts[i][1] = key THEN <<key, counts[i][2] + 1>> ELSE counts[i]]
    ELSE Append(counts, <<key, 1>>)

\* key = r if not r.isdigit() else "(number)"
KeyOf(r) == IF ~IsDigit(r) THEN r ELSE NumberKey

\* the counting loop over the results
RECURSIVE CountKeys(_, _)
CountKeys(results, counts) ==
    IF results = <<>> THEN counts
    ELSE CountKeys(Tail(results), DictIncr(counts, KeyOf(results[1])))

\* a slip: an item goes ahead of the items of equal count
InsertByCountUnstable(placed, x) ==
    LET ahead == {i \in 1..Len(placed) : placed[i][2] > x[2]}
        k == IF ahead = {} THEN 0 ELSE CHOOSE i \in ahead : \A j \in ahead : j <= i
    IN  SubSeq(placed, 1, k) \o <<x>> \o SubSeq(placed, k + 1, Len(placed))

\* one step of a stable sort by key -count: x goes behind every item
\* already placed whose count is at least its own
InsertByCount(placed, x) ==
    LET ahead == {i \in 1..Len(placed) : placed[i][2] >= x[2]}
        k == IF ahead = {} THEN 0 ELSE CHOOSE i \in ahead : \A j \in ahead : j <= i
    IN  SubSeq(placed, 1, k) \o <<x>> \o SubSeq(placed, k + 1, Len(placed))

\* sorted(items, key=lambda x: -x[1]); Python's sort is stable
RECURSIVE SortedByCount(_, _)
SortedByCount(items, placed) ==
    IF items = <<>> THEN placed
    ELSE SortedByCount(Tail(items), InsertByCount(placed, items[1]))

histogram(start, end, rules) ==
    LET results == run(start, end, rules)
        counts == CountKeys(results, <<>>)
    IN  SortedByCount(counts, <<>>)

----------------------------------------------------------------------------
(* format_chart *)

\* unit * k, for a string unit
RECURSIVE Repeat(_, _)
Repeat(unit, k) == IF k <= 0 THEN <<>> ELSE unit \o Repeat(unit, k - 1)

\* the string a bar is made of: the three characters U+00E2 U+2013 U+02C6 of
\* the source text, each written here by its code point
BarUnit == <<"U+00E2", "U+2013", "U+02C6">>

RECURSIVE MaxOf(_)
MaxOf(S) ==
    LET x == CHOOSE y \in S : TRUE
    IN  IF S = {x} THEN x
        ELSE LET m == MaxOf(S \ {x}) IN IF x > m THEN x ELSE m

\* "\n".join(lines)
RECURSIVE JoinLines(_)
JoinLines(lines) ==
    IF lines = <<>> THEN <<>>
    ELSE IF Len(lines) = 1 THEN lines[1]
    ELSE lines[1] \o <<"\n">> \o JoinLines(Tail(lines))

\* the default width of a bar
ChartWidth == 40

\* f"{label:>{max_label}} | {BarUnit * bar_len} {count}";
\* int(count / max_val * width) rounds down
ChartLine(item, max_val, max_label, width) ==
    LET bar_len == (item[2] * width) \div max_val
    IN  Repeat(<<" ">>, max_label - Len(item[1])) \o item[1] \o <<" ", "|", " ">>
        \o Repeat(BarUnit, bar_len) \o <<" ">> \o Str(item[2])

format_chart(counts, width) ==
    IF counts = <<>> THEN <<>>
    ELSE LET max_val == MaxOf({counts[i][2] : i \in 1..Len(counts)})
             max_label == MaxOf({Len(counts[i][1]) : i \in 1..Len(counts)})
         IN  JoinLines([i \in 1..Len(counts) |->
                           ChartLine(counts[i], max_val, max_label, width)])

----------------------------------------------------------------------------
(* stats *)

\* round(num / den * 100, 1) in tenths of a percent, ties to even
RateTenths(num, den) ==
    LET q == (num * 1000) \div den
        r == (num * 1000) % den
    IN  IF 2 * r > den \/ (2 * r = den /\ q % 2 = 1) THEN q + 1 ELSE q

\* sum(1 for r in results if r.isdigit())
CountDigit(results) == Cardinality({i \in 1..Len(results) : IsDigit(results[i])})

\* a slip: the empty range is given the rate 0 instead of dividing by zero
stats_guarded(start, end, rules) ==
    LET results == run(start, end, rules)
        total == Len(results)
        numeric == CountDigit(results)
    IN  ReturnedStats([total |-> total,
                       numeric |-> numeric,
                       replaced |-> total - numeric,
                       replacement_rate |->
                           IF total = 0 THEN 0 ELSE RateTenths(total - numeric, total)])

\* replacement_rate, a float of one decimal, is held in tenths
stats(start, end, rules) ==
    LET results == run(start, end, rules)
        total == Len(results)
        numeric == CountDigit(results)
    IN  IF total = 0 THEN Raised("ZeroDivisionError")
        ELSE ReturnedStats([total |-> total,
                            numeric |-> numeric,
                            replaced |-> total - numeric,
                            replacement_rate |-> RateTenths(total - numeric, total)])

----------------------------------------------------------------------------
(* json.dumps and the text renderings of main *)

\* a JSON string: quotes and backslashes escaped
RECURSIVE JsonEscape(_)
JsonEscape(s) ==
    IF s = <<>> THEN <<>>
    ELSE (IF s[1] \in {"\"", "\\"} THEN <<"\\", s[1]>> ELSE <<s[1]>>) \o JsonEscape(Tail(s))

JsonStr(s) == <<"\"">> \o JsonEscape(s) \o <<"\"">>

\* ", ".join(parts)
RECURSIVE JoinComma(_)
JoinComma(parts) ==
    IF parts = <<>> THEN <<>>
    ELSE IF Len(parts) = 1 THEN parts[1]
    ELSE parts[1] \o <<",", " ">> \o JoinComma(Tail(parts))

\* json.dumps of a list of strings
JsonList(results) ==
    <<"[">> \o JoinComma([i \in 1..Len(results) |-> JsonStr(results[i])]) \o <<"]">>

\* json.dumps of a dict from strings to ints, in the dict's order
JsonCounts(counts) ==
    <<"{">>
    \o JoinComma([i \in 1..Len(counts) |->
                     JsonStr(counts[i][1]) \o <<":", " ">> \o Str(counts[i][2])])
    \o <<"}">>

\* a non-negative float of one decimal, held in tenths, as Python prints it
FloatStr(t) == Str(t \div 10) \o <<".">> \o Str(t % 10)

\* json.dumps of the dict stats returns
JsonStats(st) ==
    <<"{">>
    \o JoinComma(<<JsonStr(<<"t", "o", "t", "a", "l">>) \o <<":", " ">> \o Str(st.total),
                   JsonStr(<<"n", "u", "m", "e", "r", "i", "c">>) \o <<":", " ">> \o Str(st.numeric),
                   JsonStr(<<"r", "e", "p", "l", "a", "c", "e", "d">>) \o <<":", " ">> \o Str(st.replaced),
                   JsonStr(<<"r", "e", "p", "l", "a", "c", "e", "m", "e", "n", "t", "_", "r", "a", "t", "e">>) \o <<":", " ">> \o FloatStr(st.replacement_rate)>>)
    \o <<"}">>

\* f"Total: {s['total']}, Replaced: {s['replaced']} ({s['replacement_rate']}%)"
StatsLine(st) ==
    <<"T", "o", "t", "a", "l", ":", " ">> \o Str(st.total) \o <<",", " ", "R", "e", "p", "l", "a", "c", "e", "d", ":", " ">> \o Str(st.replaced)
    \o <<" ", "(">> \o FloatStr(st.replacement_rate) \o <<"%", ")">>

----------------------------------------------------------------------------
(* main *)

\* what parse_args makes of the command line: type=int on end and --start,
\* type=parse_rule on every --rule in order of appearance, rules None when
\* no --rule is given.  Any failed conversion is a usage error.
\* a slip: a malformed --rule is dropped instead of ending the parse
ParseArgsLenient(argv) ==
    LET start_ok == ~argv.start.given \/ IntOk(argv.start.text)
        parsed == [i \in 1..Len(argv.rule) |-> parse_rule(argv.rule[i])]
        IsOk(r) == r.ok
        kept == SelectSeq(parsed, IsOk)
    IN  IF IntOk(argv.end) /\ start_ok
        THEN [parsed |-> TRUE,
              end |-> IntOf(argv.end),
              start |-> IF argv.start.given THEN IntOf(argv.start.text) ELSE 1,
              rules |-> IF argv.rule = <<>> THEN None
                        ELSE Some([i \in 1..Len(kept) |-> kept[i].rule]),
              stats |-> argv.stats,
              chart |-> argv.chart,
              as_json |-> argv.as_json]
        ELSE [parsed |-> FALSE]

ParseArgs(argv) ==
    LET start_ok == ~argv.start.given \/ IntOk(argv.start.text)
        parsed == [i \in 1..Len(argv.rule) |-> parse_rule(argv.rule[i])]
        rules_ok == \A i \in 1..Len(parsed) : parsed[i].ok
    IN  IF IntOk(argv.end) /\ start_ok /\ rules_ok
        THEN [parsed |-> TRUE,
              end |-> IntOf(argv.end),
              start |-> IF argv.start.given THEN IntOf(argv.start.text) ELSE 1,
              rules |-> IF argv.rule = <<>> THEN None
                        ELSE Some([i \in 1..Len(parsed) |-> parsed[i].rule]),
              stats |-> argv.stats,
              chart |-> argv.chart,
              as_json |-> argv.as_json]
        ELSE [parsed |-> FALSE]

----------------------------------------------------------------------------
(* The inputs the calls are made with *)

Divisors == {2, 3}
Labels == {Fizz, <<>>, <<"2">>}
Rules == Divisors \X Labels

RECURSIVE SeqsUpTo(_, _)
SeqsUpTo(S, k) ==
    IF k = 0 THEN {<<>>}
    ELSE LET shorter == SeqsUpTo(S, k - 1)
         IN  shorter \cup {Append(s, x) : s \in shorter, x \in S}

RulesArgs == {None} \cup {Some(l) : l \in SeqsUpTo(Rules, MaxRules)}

TextChars == {"0", "1", "-", "+", " ", "_", ":", "a"}
Texts == SeqsUpTo(TextChars, MaxTextLen)

\* most a command line counts up to; it starts no lower than -1
MaxCliPos == 5
CliInts == (0 - 1) .. MaxCliPos

\* the tokens given for end and --start: decimal integers, and one that is none
IntTokens == {Str(i) : i \in CliInts} \cup {<<"a">>}

\* the values given to --rule: two well-formed rules, and one malformed rule
\* for each cause (divisor not positive, divisor no integer, no colon)
CliRuleTexts == {<<"3", ":", "F", "i", "z", "z">>, <<"2", ":", "2">>, <<"0", ":", "a">>, <<"a", ":", "1">>, <<"a">>}

\* the command lines: the options main declares, each conversion input given
\* as text; argparse's own -h is left out
Argvs ==
    [end : IntTokens,
     start : {[given |-> FALSE, text |-> <<>>]}
                 \cup {[given |-> TRUE, text |-> t] : t \in IntTokens},
     rule : SeqsUpTo(CliRuleTexts, MaxCliRules),
     stats : BOOLEAN,
     chart : BOOLEAN,
     as_json : BOOLEAN]

NoRet == [ok |-> TRUE]
NoArgs == [parsed |-> FALSE]
NoCall == [fn |-> "none"]

Init ==
    /\ pc = "idle"
    /\ call = NoCall
    /\ ret = NoRet
    /\ args = NoArgs
    /\ calls = <<>>
    /\ stdout = <<>>
    /\ stderr = <<>>
    /\ exitcode = -1

CallFizzbuzz ==
    /\ pc = "idle"
    /\ \E n \in Ints, rules \in RulesArgs :
          /\ call' = [fn |-> "fizzbuzz", n |-> n, rules |-> rules]
          /\ ret' = ReturnedStr(fizzbuzz(n, rules))
    /\ pc' = "returned"
    /\ UNCHANGED <<args, calls, stdout, stderr, exitcode>>

CallRun ==
    /\ pc = "idle"
    /\ \E start \in Ints, end \in Ints, rules \in RulesArgs :
          /\ call' = [fn |-> "run", start |-> start, end |-> end, rules |-> rules]
          /\ ret' = ReturnedList(run(start, end, rules))
    /\ pc' = "returned"
    /\ UNCHANGED <<args, calls, stdout, stderr, exitcode>>

CallParseRule ==
    /\ pc = "idle"
    /\ \E s \in Texts :
          /\ call' = [fn |-> "parse_rule", s |-> s]
          /\ ret' = parse_rule(s)
    /\ pc' = "returned"
    /\ UNCHANGED <<args, calls, stdout, stderr, exitcode>>

CallHistogram ==
    /\ pc = "idle"
    /\ \E start \in Ints, end \in Ints, rules \in RulesArgs :
          /\ call' = [fn |-> "histogram", start |-> start, end |-> end, rules |-> rules]
          /\ ret' = ReturnedCounts(histogram(start, end, rules))
    /\ pc' = "returned"
    /\ UNCHANGED <<args, calls, stdout, stderr, exitcode>>

CallStats ==
    /\ pc = "idle"
    /\ \E start \in Ints, end \in Ints, rules \in RulesArgs :
          /\ call' = [fn |-> "stats", start |-> start, end |-> end, rules |-> rules]
          /\ ret' = stats(start, end, rules)
    /\ pc' = "returned"
    /\ UNCHANGED <<args, calls, stdout, stderr, exitcode>>

\* main(argv) is entered
CallMain ==
    /\ pc = "idle"
    /\ \E argv \in Argvs : call' = [fn |-> "main", argv |-> argv]
    /\ pc' = "parse_args"
    /\ UNCHANGED <<ret, args, calls, stdout, stderr, exitcode>>

\* args = parser.parse_args(argv); parser.error writes the usage message to
\* standard error and exits with status 2
MainParseArgs ==
    /\ pc = "parse_args"
    /\ LET a == ParseArgs(call.argv)
       IN  IF a.parsed
           THEN /\ args' = a
                /\ pc' = "dispatch"
                /\ UNCHANGED <<stderr, exitcode>>
           ELSE /\ stderr' = Append(stderr, "usage")
                /\ exitcode' = 2
                /\ pc' = "exited"
                /\ UNCHANGED args
    /\ UNCHANGED <<call, ret, calls, stdout>>

\* if args.chart: histogram, printed as JSON or as a chart
MainChart ==
    /\ pc = "dispatch"
    /\ args.chart
    /\ LET counts == histogram(args.start, args.end, args.rules)
       IN  stdout' = Append(stdout, IF args.as_json THEN JsonCounts(counts)
                                    ELSE format_chart(counts, ChartWidth))
    /\ calls' = calls \o <<"histogram", "run">>
    /\ exitcode' = 0
    /\ pc' = "exited"
    /\ UNCHANGED <<call, ret, args, stderr>>

\* a slip: --stats is looked at without regard to --chart
MainStatsBeforeChart ==
    /\ pc = "dispatch"
    /\ args.stats
    /\ LET s == stats(args.start, args.end, args.rules)
       IN  IF s.ok
           THEN /\ stdout' = Append(stdout, IF args.as_json THEN JsonStats(s.stats)
                                            ELSE StatsLine(s.stats))
                /\ exitcode' = 0
                /\ UNCHANGED stderr
           ELSE /\ stderr' = Append(stderr, s.err)
                /\ exitcode' = 1
                /\ UNCHANGED stdout
    /\ calls' = calls \o <<"stats", "run">>
    /\ pc' = "exited"
    /\ UNCHANGED <<call, ret, args>>

\* if args.stats: stats, printed as JSON or as one line; the exception stats
\* raises is not caught, and ends the process with a traceback and status 1
MainStats ==
    /\ pc = "dispatch"
    /\ ~args.chart
    /\ args.stats
    /\ LET s == stats(args.start, args.end, args.rules)
       IN  IF s.ok
           THEN /\ stdout' = Append(stdout, IF args.as_json THEN JsonStats(s.stats)
                                            ELSE StatsLine(s.stats))
                /\ exitcode' = 0
                /\ UNCHANGED stderr
           ELSE /\ stderr' = Append(stderr, s.err)
                /\ exitcode' = 1
                /\ UNCHANGED stdout
    /\ calls' = calls \o <<"stats", "run">>
    /\ pc' = "exited"
    /\ UNCHANGED <<call, ret, args>>

\* otherwise: run, printed as JSON or one result a line
MainList ==
    /\ pc = "dispatch"
    /\ ~args.chart
    /\ ~args.stats
    /\ LET results == run(args.start, args.end, args.rules)
       IN  stdout' = IF args.as_json THEN Append(stdout, JsonList(results))
                     ELSE stdout \o results
    /\ calls' = calls \o <<"run">>
    /\ exitcode' = 0
    /\ pc' = "exited"
    /\ UNCHANGED <<call, ret, args, stderr>>

Next ==
    \/ CallFizzbuzz
    \/ CallRun
    \/ CallParseRule
    \/ CallHistogram
    \/ CallStats
    \/ CallMain
    \/ MainParseArgs
    \/ MainChart
    \/ MainStats
    \/ MainList

Spec == Init /\ [][Next]_vars

----------------------------------------------------------------------------
(* What the claims speak of, stated apart from the code's way of computing *)

\* d divides n
Divides(d, n) == \E k \in (0 - (n * n)) .. (n * n) : n = k * d

\* the ruleset a call uses: the classic one when rules is omitted
RulesetOf(rules) == IF rules.isNone THEN <<<<3, Fizz>>, <<5, Buzz>>>> ELSE rules.list

\* the labels, in ruleset order, of the rules whose divisor divides n
RECURSIVE Flatten(_)
Flatten(ss) == IF ss = <<>> THEN <<>> ELSE Flatten(SubSeq(ss, 1, Len(ss) - 1)) \o ss[Len(ss)]

LabelsFor(n, rules) ==
    LET Hit(r) == Divides(r[1], n)
        hits == SelectSeq(RulesetOf(rules), Hit)
    IN  Flatten([i \in 1..Len(hits) |-> hits[i][2]])

\* n falls back to its number under the rules: no label is produced
IsFallback(n, rules) == LabelsFor(n, rules) = <<>>

HasColon(s) == \E i \in 1..Len(s) : s[i] = ":"

\* the text before and after the first colon of s
BeforeColon(s) ==
    LET i == CHOOSE j \in 1..Len(s) : s[j] = ":" /\ \A k \in 1..(j - 1) : s[k] # ":"
    IN  [k \in 1..(i - 1) |-> s[k]]

AfterColon(s) ==
    LET i == CHOOSE j \in 1..Len(s) : s[j] = ":" /\ \A k \in 1..(j - 1) : s[k] # ":"
    IN  [k \in 1..(Len(s) - i) |-> s[i + k]]

Malformed(s) ==
    \/ ~HasColon(s)
    \/ ~IntOk(BeforeColon(s))
    \/ IntOf(BeforeColon(s)) <= 0

\* the count a dict held as items gives a key, 0 when the key is absent
CountOf(h, key) ==
    IF \E i \in 1..Len(h) : h[i][1] = key
    THEN LET i == CHOOSE j \in 1..Len(h) : h[j][1] = key IN h[i][2]
    ELSE 0

RECURSIVE SumCounts(_)
SumCounts(h) == IF h = <<>> THEN 0 ELSE h[1][2] + SumCounts(Tail(h))

Returns(fn) == pc = "returned" /\ call.fn = fn

----------------------------------------------------------------------------
(* The claims *)

\* C1 (as amended): fizzbuzz(n, rules) returns the concatenation, in ruleset
\* order, of the labels of exactly the rules whose divisor divides n when that
\* concatenation is not empty, and the decimal string of n when it is empty;
\* with rules omitted the ruleset is [(3, "Fizz"), (5, "Buzz")].
C1_FizzbuzzJoinsLabels ==
    Returns("fizzbuzz") =>
        LET joined == LabelsFor(call.n, call.rules)
        IN  /\ ret.ok
            /\ joined # <<>> => ret.str = joined
            /\ joined = <<>> => ret.str = Str(call.n)

\* C1 as stated: moreover the decimal string of n is returned if and only if
\* the concatenation is empty.
C1_DecimalIffNoLabel ==
    Returns("fizzbuzz") =>
        LET joined == LabelsFor(call.n, call.rules)
        IN  /\ ret.ok
            /\ joined # <<>> => ret.str = joined
            /\ (ret.str = Str(call.n)) <=> (joined = <<>>)

\* C1 witness: a negative n that two rules match, their labels in rule order
C1_Witness ==
    /\ Returns("fizzbuzz")
    /\ call.n = 0 - 3
    /\ call.rules = Some(<<<<3, Fizz>>, <<3, <<"2">>>>>>)
    /\ ret.str = Fizz \o <<"2">>

\* C2: run(start, end, rules) has length max(0, end - start + 1), its k-th
\* element (from 0) is fizzbuzz(start + k, rules), and it is empty, with no
\* error, when end < start.
C2_RunIsRangeOfFizzbuzz ==
    Returns("run") =>
        LET len == IF call.end - call.start + 1 > 0 THEN call.end - call.start + 1 ELSE 0
        IN  /\ ret.ok
            /\ Len(ret.list) = len
            /\ \A k \in 0..(len - 1) : ret.list[k + 1] = fizzbuzz(call.start + k, call.rules)
            /\ call.end < call.start => ret.list = <<>>

\* C2 witness: a range across zero, run under a custom ruleset
C2_Witness ==
    /\ Returns("run")
    /\ call.start = 0 - 1
    /\ call.end = 2
    /\ call.rules = Some(<<<<2, Fizz>>>>)
    /\ ret.list = <<<<"-", "1">>, Fizz, <<"1">>, Fizz>>

\* C3: parse_rule(text) fails exactly when text has no colon, or what is before
\* the first colon is no valid integer, or that integer is <= 0; otherwise it
\* returns (divisor, label), divisor > 0, label everything after the first colon.
C3_ParseRule ==
    Returns("parse_rule") =>
        /\ ret.ok <=> ~Malformed(call.s)
        /\ ~ret.ok => ret.err = "ArgumentTypeError"
        /\ ret.ok => /\ ret.rule[1] = IntOf(BeforeColon(call.s))
                     /\ ret.rule[1] > 0
                     /\ ret.rule[2] = AfterColon(call.s)

\* C3 witness: a label that holds a colon itself
C3_Witness ==
    /\ Returns("parse_rule")
    /\ call.s = <<"1", ":", ":", "a">>
    /\ ret = ReturnedRule(<<1, <<":", "a">>>>)

\* C4: on a non-empty range stats returns total = end - start + 1, numeric =
\* the number of integers of the range whose result is the decimal string of
\* the integer, and replaced = total - numeric = the number of integers of the
\* range whose result bears a label.
C4_StatsCountsFallbacks ==
    (Returns("stats") /\ call.start <= call.end) =>
        LET range == call.start .. call.end
        IN  /\ ret.ok
            /\ ret.stats.total = call.end - call.start + 1
            /\ ret.stats.numeric =
                   Cardinality({i \in range : fizzbuzz(i, call.rules) = Str(i)})
            /\ ret.stats.replaced = ret.stats.total - ret.stats.numeric
            /\ ret.stats.replaced =
                   Cardinality({i \in range : ~IsFallback(i, call.rules)})

\* C5: histogram maps "(number)" to the number of integers of the range that
\* fall back to their number, every other key is a label string the rule
\* engine produced and counts the integers with that result, no count is 0,
\* and the counts sum to the length of the range.
C5_HistogramCountsResults ==
    Returns("histogram") =>
        LET h == ret.counts
            range == call.start .. call.end
        IN  /\ CountOf(h, NumberKey) =
                   Cardinality({i \in range : IsFallback(i, call.rules)})
            /\ \A p \in 1..Len(h) :
                   h[p][1] # NumberKey =>
                       /\ \E i \in range : /\ ~IsFallback(i, call.rules)
                                           /\ LabelsFor(i, call.rules) = h[p][1]
                       /\ h[p][2] = Cardinality({i \in range :
                                          /\ ~IsFallback(i, call.rules)
                                          /\ fizzbuzz(i, call.rules) = h[p][1]})
            /\ \A p \in 1..Len(h) : h[p][2] > 0
            /\ SumCounts(h) = Cardinality(range)

\* C6: the entries histogram returns are in order of non-increasing count, and
\* keys of equal count are in the order in which each was first met while the
\* range was scanned upwards.
C6_HistogramOrder ==
    Returns("histogram") =>
        LET h == ret.counts
            results == run(call.start, call.end, call.rules)
            FirstMet(key) == CHOOSE p \in 1..Len(results) :
                                 /\ KeyOf(results[p]) = key
                                 /\ \A q \in 1..(p - 1) : KeyOf(results[q]) # key
        IN  \A i \in 1..Len(h) : \A j \in (i + 1)..Len(h) :
                /\ h[i][2] >= h[j][2]
                /\ h[i][2] = h[j][2] => FirstMet(h[i][1]) < FirstMet(h[j][1])

\* C6 witness: the most frequent key was met last, the two others tie
C6_Witness ==
    /\ Returns("histogram")
    /\ call.start = 0 - 1
    /\ call.end = 2
    /\ call.rules = None
    /\ ret.counts = <<<<NumberKey, 2>>, <<<<"-", "1">>, 1>>, <<Fizz \o Buzz, 1>>>>

\* C7: main selects one mode in the priority chart > stats > list: with --chart
\* histogram alone is computed, with --stats and no --chart stats alone, else
\* the list; --json changes the rendering only.
C7_ModePriority ==
    (pc = "exited" /\ args.parsed) =>
        /\ args.chart => calls = <<"histogram", "run">>
        /\ (~args.chart /\ args.stats) => calls = <<"stats", "run">>
        /\ (~args.chart /\ ~args.stats) => calls = <<"run">>
        /\ exitcode = 0 =>
               stdout =
                   IF args.chart
                   THEN LET c == histogram(args.start, args.end, args.rules)
                        IN  <<IF args.as_json THEN JsonCounts(c)
                              ELSE format_chart(c, ChartWidth)>>
                   ELSE IF args.stats
                   THEN LET st == stats(args.start, args.end, args.rules).stats
                        IN  <<IF args.as_json THEN JsonStats(st) ELSE StatsLine(st)>>
                   ELSE LET r == run(args.start, args.end, args.rules)
                        IN  IF args.as_json THEN <<JsonList(r)>> ELSE r

\* C7 witness: --chart and --stats together, and the histogram was computed
C7_Witness ==
    /\ pc = "exited"
    /\ args.parsed
    /\ args.chart
    /\ args.stats
    /\ args.as_json
    /\ calls = <<"histogram", "run">>
    /\ stdout # <<>>

\* C8: every invocation of main whose arguments parse ends with exit status 0,
\* in every mode and for every range, an empty or reversed one too.
C8_ParsedExitsZero ==
    (pc = "exited" /\ args.parsed) => (exitcode = 0 /\ stderr = <<>>)

C10_StatsFailsOnEmptyRangeOnly ==
    Returns("stats") =>
        /\ call.end < call.start => ret = Raised("ZeroDivisionError")
        /\ call.end >= call.start => ret.ok

\* C10 witness: an empty range under a custom ruleset
C10_Witness ==
    /\ Returns("stats")
    /\ call.end < call.start
    /\ call.rules = Some(<<<<2, Fizz>>>>)
    /\ ~ret.ok

====
